---- MODULE Spec2Model ----
(***************************************************************************)
(* A model of the collection engine of getinfo.py: the node taxonomy,      *)
(* get_key / get_default_id, get_collectable, the three populate cases,    *)
(* the serialization fallback _to_jsonable and the driver main.            *)
(*                                                                         *)
(* Python strings are sequences of one-character strings, so that          *)
(* str.lower, concatenation and repr are computed and not assumed.         *)
(* Python objects are tagged records; nodes and dicts live in two heaps    *)
(* (sequences indexed by reference), because the program mutates nodes     *)
(* (get_collectable backfills _id and _parent) and aliases dicts           *)
(* (subdata = data[key] = {}).                                             *)
(***************************************************************************)
EXTENDS Integers, Sequences, FiniteSets, TLC

----------------------------------------------------------------------------
(* Bounds *)

\* longest enumeration of the root collector that Init draws
MaxChildren == 2

----------------------------------------------------------------------------
(* Python values *)

NoneV == [kind |-> "none"]
IntV(n) == [kind |-> "int", n |-> n]
StrV(s) == [kind |-> "str", s |-> s]
TupleV(t) == [kind |-> "tuple", items |-> t]
NodeV(r) == [kind |-> "node", ref |-> r]
DictV(d) == [kind |-> "dict", dref |-> d]
ExcV(cls, msg) == [kind |-> "exc", cls |-> cls, msg |-> msg]
\* the dict {"error": e} that the Provider case stores
ErrDict(e) == [kind |-> "errdict", exc |-> e]
\* a dict returned by a Provider (Environ, PipList): a value, never written to
DictVal(d) == [kind |-> "dictval", d |-> d]
\* a callable with a __module__, a __name__ and the outcome of calling it
FuncV(m, nm, out) == [kind |-> "callable", module |-> m, name |-> nm, out |-> out]

\* the outcome of a call: a returned value or a raised exception
Returns(v) == [raises |-> FALSE, val |-> v]
Raises(e) == [raises |-> TRUE, exc |-> e]

UpperCase ==
  <<"A","B","C","D","E","F","G","H","I","J","K","L","M",
    "N","O","P","Q","R","S","T","U","V","W","X","Y","Z">>
LowerCase ==
  <<"a","b","c","d","e","f","g","h","i","j","k","l","m",
    "n","o","p","q","r","s","t","u","v","w","x","y","z">>

lower_char(c) ==
  IF \E i \in 1..26 : UpperCase[i] = c
  THEN LowerCase[CHOOSE i \in 1..26 : UpperCase[i] = c]
  ELSE c

\* str.lower()
lower(s) == [i \in 1..Len(s) |-> lower_char(s[i])]

----------------------------------------------------------------------------
(* Class names and the class hierarchy *)

cls_Result == <<"R","e","s","u","l","t">>
cls_Value == <<"V","a","l","u","e">>
cls_Function == <<"F","u","n","c","t","i","o","n">>
cls_InstanceAttribute ==
  <<"I","n","s","t","a","n","c","e","A","t","t","r","i","b","u","t","e">>
cls_InstanceMethod ==
  <<"I","n","s","t","a","n","c","e","M","e","t","h","o","d">>
cls_PipList == <<"P","i","p","L","i","s","t">>
cls_Environ == <<"E","n","v","i","r","o","n">>
cls_File == <<"F","i","l","e">>
cls_DictCollector == <<"D","i","c","t","C","o","l","l","e","c","t","o","r">>
cls_ModuleFunction ==
  <<"M","o","d","u","l","e","F","u","n","c","t","i","o","n">>
cls_DependenciesOf ==
  <<"D","e","p","e","n","d","e","n","c","i","e","s","O","f">>
cls_TypeError == <<"T","y","p","e","E","r","r","o","r">>
cls_AttributeError ==
  <<"A","t","t","r","i","b","u","t","e","E","r","r","o","r">>
cls_RuntimeError == <<"R","u","n","t","i","m","e","E","r","r","o","r">>

\* subclasses of Provider
ProviderClasses ==
  {cls_Value, cls_Function, cls_InstanceAttribute, cls_InstanceMethod,
   cls_PipList, cls_Environ}

\* subclasses of Collector
CollectorClasses ==
  {cls_File, cls_DictCollector, cls_ModuleFunction, cls_DependenciesOf}

\* _Node.__init__ / Collector.__init__: the fields of a node.  call is what
\* the wrapped attribute, method or function does when a Provider is invoked;
\* items is what a Collector's enumeration yields and failAt the position at
\* which the enumeration raises (0: it does not).
Node(cls, id, parent, target, call, items, failAt) ==
  [cls |-> cls, id |-> id, parent |-> parent, target |-> target,
   call |-> call, items |-> items, failAt |-> failAt]

isNode(obj) == obj.kind = "node"
isProvider(heap, obj) == isNode(obj) /\ heap[obj.ref].cls \in ProviderClasses
isCollector(heap, obj) == isNode(obj) /\ heap[obj.ref].cls \in CollectorClasses

----------------------------------------------------------------------------
(* get_key and get_default_id *)

\* getattr(obj, "_id", None): only nodes carry an _id
attr_id(heap, obj) == IF isNode(obj) THEN heap[obj.ref].id ELSE NoneV

\* bool(c._target): None and "" are falsy
truthy(target) == target.kind = "str" /\ Len(target.s) > 0

\* get_default_id registered for Provider
get_default_id_for_provider(heap, obj) == lower(heap[obj.ref].cls)

\* a variant that appends the brackets whatever the target
get_default_id_always_bracketed(heap, c) ==
  lower(heap[c.ref].cls) \o <<"[">>
    \o (IF truthy(heap[c.ref].target) THEN heap[c.ref].target.s ELSE <<>>) \o <<"]">>

\* get_default_id registered for Collector
get_default_id_for_collector(heap, c) ==
  LET s == lower(heap[c.ref].cls)
  IN IF truthy(heap[c.ref].target)
     THEN s \o <<"[">> \o heap[c.ref].target.s \o <<"]">>
     ELSE s

\* get_default_id: single dispatch on the runtime class; the base case raises
get_default_id(heap, obj) ==
  IF isProvider(heap, obj)
  THEN Returns(StrV(get_default_id_for_provider(heap, obj)))
  ELSE IF isCollector(heap, obj)
  THEN Returns(StrV(get_default_id_for_collector(heap, obj)))
  ELSE Raises(ExcV(cls_TypeError, <<>>))

get_key(heap, obj) ==
  IF attr_id(heap, obj) # NoneV
  THEN Returns(attr_id(heap, obj))
  ELSE get_default_id(heap, obj)

----------------------------------------------------------------------------
(* get_collectable *)

\* _get_full_name: __module__ and __name__ joined by ".", each only when truthy
get_full_name(f) ==
  IF truthy(f.module)
  THEN IF Len(f.name) > 0 THEN f.module.s \o <<".">> \o f.name ELSE f.module.s
  ELSE f.name

\* Function.__init__ (through from_parent): the default id is the full name
\* followed by "()"
new_Function(func, id, parent) ==
  Node(cls_Function,
       IF id = NoneV THEN StrV(get_full_name(func) \o <<"(", ")">>) ELSE id,
       parent, NoneV, func.out, <<>>, 0)

\* Value.__init__ (through from_parent): the default id is parent._id, which
\* raises AttributeError when parent is None
new_Value(heap, value, id, parent) ==
  IF id = NoneV /\ parent = NoneV
  THEN Raises(ExcV(cls_AttributeError, <<>>))
  ELSE Returns(Node(cls_Value,
                    IF id = NoneV THEN heap[parent.ref].id ELSE id,
                    parent, NoneV, Returns(value), <<>>, 0))

\* isinstance(obj, tuple) and len(obj) == 2 and isinstance(obj[0], str)
is_id_pair(obj) ==
  obj.kind = "tuple" /\ Len(obj.items) = 2 /\ obj.items[1].kind = "str"

RECURSIVE unpack_deep(_, _)
\* a variant that unpacks again what it unpacked, as a recursive call would
unpack_deep(obj, id) ==
  IF is_id_pair(obj)
  THEN unpack_deep(obj.items[2], obj.items[1])
  ELSE [id |-> id, obj |-> obj]

\* the (id, obj) that get_collectable goes on with after its first statement:
\* an id pair is unpacked once, and its id replaces the id argument
unpack(obj, id) ==
  IF is_id_pair(obj)
  THEN [id |-> obj.items[1], obj |-> obj.items[2]]
  ELSE [id |-> id, obj |-> obj]

\* a variant that lets an explicit id replace the id the node has
backfill_id_overriding(own, id) == IF id # NoneV THEN id ELSE own

\* if obj._id is None: obj._id = id
backfill_id(own, id) == IF own = NoneV THEN id ELSE own

\* if obj._parent is None: obj._parent = parent
backfill_parent(own, parent) == IF own = NoneV THEN parent ELSE own

\* the isinstance(obj, _Node) branch: the node is mutated in place and
\* returned; obj._parent._id raises AttributeError when the parent is None
collectable_node(heap, obj, parent, id) ==
  LET n == heap[obj.ref]
      id1 == backfill_id(n.id, id)
      par1 == backfill_parent(n.parent, parent)
      h1 == [heap EXCEPT ![obj.ref].id = id1, ![obj.ref].parent = par1]
  IN IF id1 # NoneV
     THEN [heap |-> h1, out |-> Returns(obj)]
     ELSE IF par1 = NoneV
     THEN [heap |-> h1, out |-> Raises(ExcV(cls_AttributeError, <<>>))]
     ELSE [heap |-> [h1 EXCEPT ![obj.ref].id = h1[par1.ref].id],
           out |-> Returns(obj)]

\* get_collectable(obj, parent, id): the heap after the call and its outcome
get_collectable(heap, obj0, parent, id0) ==
  LET u == unpack(obj0, id0)
      obj == u.obj
      id == u.id
  IN IF isNode(obj)
     THEN collectable_node(heap, obj, parent, id)
     ELSE IF obj.kind = "callable"
     THEN [heap |-> Append(heap, new_Function(obj, id, parent)),
           out |-> Returns(NodeV(Len(heap) + 1))]
     ELSE LET v == new_Value(heap, obj, id, parent)
          IN IF v.raises
             THEN [heap |-> heap, out |-> v]
             ELSE [heap |-> Append(heap, v.val),
                   out |-> Returns(NodeV(Len(heap) + 1))]

----------------------------------------------------------------------------
(* Provider invocation and Collector enumeration *)

\* a variant in which InstanceMethod.__call__ returns the raw result too
invoke_raw(heap, obj) == [heap |-> heap, out |-> heap[obj.ref].call]

\* obj(): InstanceMethod.__call__ normalizes what the method returns with
\* get_collectable(..., parent=self); every other Provider returns the raw
\* result.  The heap after the call and its outcome.
invoke(heap, obj) ==
  LET n == heap[obj.ref]
  IN IF n.cls = cls_InstanceMethod /\ ~n.call.raises
     THEN get_collectable(heap, n.call.val, obj, NoneV)
     ELSE [heap |-> heap, out |-> n.call]

\* what collect() gives for_collector to iterate: DictCollector.collect
\* returns None, every other collect is a generator
collect_is_iterable(heap, obj) == heap[obj.ref].cls # cls_DictCollector

\* one step of the generator collect(): the item at position pos, as it is
\* yielded.  ModuleFunction.collect passes each item through get_collectable
\* with the collector as parent; the other collectors yield nodes they built.
yield_item(heap, obj, pos) ==
  LET n == heap[obj.ref]
  IN IF n.cls = cls_ModuleFunction
     THEN get_collectable(heap, n.items[pos], obj, NoneV)
     ELSE [heap |-> heap, out |-> Returns(n.items[pos])]

\* a variant that exhausts the enumeration before the first child is populated
requested_all(pos, n_items) == n_items

\* how far the enumeration has been advanced when the child at position pos
\* is handed to populate: the for loop pulls one item at a time
requested_upto(pos, n_items) == pos

----------------------------------------------------------------------------
(* The serialization fallback and json.dumps *)

\* a variant that renders str(exception), the bare message
str_exc(e) == e.msg

\* repr(exception) for an exception with one string argument
repr_exc(e) ==
  IF Len(e.msg) = 0
  THEN e.cls \o <<"(", ")">>
  ELSE e.cls \o <<"(", "'">> \o e.msg \o <<"'", ")">>

\* _to_jsonable: an exception renders as its repr; an object with no other
\* rule renders as str(obj), kept abstract as "<obj>"
to_jsonable(obj) ==
  IF obj.kind = "exc" THEN StrV(repr_exc(obj)) ELSE StrV(<<"<", "o", "b", "j", ">">>)

RECURSIVE dumps(_, _)
\* json.dumps(obj, default=_to_jsonable) as a JSON value: dicts are rendered
\* key by key, tuples become lists, None, ints and strings are kept, and
\* everything else goes through the fallback
dumps(dicts, obj) ==
  CASE obj.kind = "dict" ->
         [json |-> "object",
          members |-> [k \in DOMAIN dicts[obj.dref] |-> dumps(dicts, dicts[obj.dref][k])]]
    [] obj.kind = "errdict" ->
         [json |-> "object",
          members |-> [k \in {<<"e","r","r","o","r">>} |-> dumps(dicts, obj.exc)]]
    [] obj.kind = "dictval" ->
         [json |-> "object",
          members |-> [k \in DOMAIN obj.d |-> dumps(dicts, obj.d[k])]]
    [] obj.kind = "tuple" ->
         [json |-> "array",
          elems |-> [i \in 1..Len(obj.items) |-> dumps(dicts, obj.items[i])]]
    [] obj.kind \in {"none", "int", "str"} -> [json |-> "scalar", v |-> obj]
    [] OTHER -> [json |-> "scalar", v |-> to_jsonable(obj)]

----------------------------------------------------------------------------
(* The probe trees that Init draws from *)

str_a == StrV(<<"a">>)
str_b == StrV(<<"b">>)
boom == ExcV(cls_RuntimeError, <<"b","o","o","m">>)
custom_pair == TupleV(<<StrV(<<"c","i","d">>), StrV(<<"v">>)>>)

\* the nodes that exist before the traversal starts, by their place in Library
the_root == NodeV(1)
the_file == NodeV(2)
the_dictcollector == NodeV(5)
the_result == NodeV(6)
the_environ == NodeV(7)
the_piplist == NodeV(8)
the_deps == NodeV(9)
the_empty == NodeV(11)
the_method == NodeV(12)
the_failing_method == NodeV(13)
the_raising_result == NodeV(14)

\* the nodes the probe author built; items of the root are drawn by Init
Library(rootItems) ==
  << \* 1: the root, a ModuleFunction over a generator function
     Node(cls_ModuleFunction, NoneV, NoneV, StrV(<<"r">>), Returns(NoneV), rootItems, 0),
     \* 2: a File collector whose collect() yields its two methods
     Node(cls_File, NoneV, NoneV, StrV(<<"p">>), Returns(NoneV), <<NodeV(3), NodeV(4)>>, 0),
     \* 3: a method returning an (id, value) pair
     Node(cls_InstanceMethod, StrV(<<"m">>), NodeV(2), NoneV, Returns(custom_pair), <<>>, 0),
     \* 4: a method that raises
     Node(cls_InstanceMethod, StrV(<<"n">>), NodeV(2), NoneV, Raises(boom), <<>>, 0),
     \* 5: a DictCollector
     Node(cls_DictCollector, NoneV, NoneV, NoneV, Returns(NoneV), <<>>, 0),
     \* 6: a Result, a _Node that is neither Provider nor Collector
     Node(cls_Result, NoneV, NoneV, NoneV, Returns(NoneV), <<>>, 0),
     \* 7: an Environ provider with id and parent set, returning a dict
     Node(cls_Environ, StrV(<<"e">>), NodeV(1), NoneV,
          Returns(DictVal([k \in {<<"x">>, <<"y">>} |-> IntV(1)])), <<>>, 0),
     \* 8: a PipList provider without id whose call raises
     Node(cls_PipList, NoneV, NoneV, NoneV, Raises(boom), <<>>, 0),
     \* 9: a DependenciesOf collector whose enumeration raises after one child
     Node(cls_DependenciesOf, NoneV, NoneV, StrV(<<"d">>), Returns(NoneV), <<NodeV(10)>>, 2),
     \* 10: an attribute of 9
     Node(cls_InstanceAttribute, str_a, NodeV(9), NoneV, Returns(IntV(1)), <<>>, 0),
     \* 11: a ModuleFunction with target "" over a generator that yields nothing
     Node(cls_ModuleFunction, NoneV, NoneV, StrV(<<>>), Returns(NoneV), <<>>, 0),
     \* 12: a method returning a collector (Executable.file returns a File)
     Node(cls_InstanceMethod, StrV(<<"f">>), NoneV, NoneV, Returns(NodeV(2)), <<>>, 0),
     \* 13: a method returning the collector whose enumeration raises
     Node(cls_InstanceMethod, StrV(<<"g">>), NoneV, NoneV, Returns(NodeV(9)), <<>>, 0),
     \* 14: a method returning a callable that raises when called
     Node(cls_InstanceMethod, StrV(<<"h">>), NoneV, NoneV,
          Returns(FuncV(NoneV, <<"k">>, Raises(boom))), <<>>, 0)
  >>

\* what the root's generator function may yield
Menu ==
  { TupleV(<<str_a, IntV(1)>>),
    TupleV(<<str_a, FuncV(NoneV, <<"f">>, Raises(boom))>>),
    FuncV(StrV(<<"o","s">>), <<"g">>, Returns(custom_pair)),
    TupleV(<<str_a, TupleV(<<str_b, IntV(5)>>)>>),
    TupleV(<<str_b, the_environ>>),
    TupleV(<<str_a, the_result>>),
    IntV(7),
    the_file, the_dictcollector, the_result, the_piplist,
    the_deps, the_empty, the_method, the_failing_method, the_raising_result }

RootItems == UNION { [1..n -> Menu] : n \in 0..MaxChildren }

----------------------------------------------------------------------------
(* State *)

VARIABLES
  heap,    \* the nodes, by reference
  dicts,   \* the dicts populate writes to, by reference; DATA is dicts[1]
  stack,   \* the active populate calls, innermost last
  pc,      \* main: "collect", "done" or "aborted" (an uncaught exception)
  output,  \* what main has written: None, or the destination and the document
  nfid,    \* number of populate calls started for enumerated nodes
  log      \* history of the traversal's steps

vars == <<heap, dicts, stack, pc, output, nfid, log>>

EmptyDict == [k \in {} |-> NoneV]

\* a populate call: its arguments obj, data, parent; for the Collector case
\* its subdata and the position of its for loop; fid identifies the call of
\* the enumerated node it works for; anc lists the enclosing collector calls
\* with the position each is at; hop counts the populate(res, ...) calls that
\* led from the enumerated node to obj
Frame(fid, obj, data, parent, anc) ==
  [fid |-> fid, obj |-> obj, data |-> data, parent |-> parent, anc |-> anc,
   at |-> "call", sub |-> 0, pos |-> 0, req |-> 0, hop |-> 0]

Event(op, f, key, pos, val) ==
  [op |-> op, fid |-> f.fid, node |-> f.obj, d |-> f.data, sub |-> f.sub,
   anc |-> f.anc, key |-> key, pos |-> pos, val |-> val, hop |-> f.hop]

top == stack[Len(stack)]
pop(st) == SubSeq(st, 1, Len(st) - 1)
running == pc = "collect" /\ stack # <<>>

\* data[key] = value
setitem(d, key, value) == (key :> value) @@ d

\* DATA = {} and populate(root, DATA) in main
Init ==
  /\ \E items \in RootItems : heap = Library(items)
  /\ dicts = <<EmptyDict>>
  /\ stack = <<Frame(1, the_root, 1, NoneV, <<>>)>>
  /\ pc = "collect"
  /\ output = NoneV
  /\ nfid = 1
  /\ log = <<>>

\* a variant in which the innermost populate call swallows the exception
Abort_swallowed ==
  /\ stack' = pop(stack)
  /\ pc' = pc

\* an exception that nothing catches unwinds every populate call and main
Abort ==
  /\ stack' = <<>>
  /\ pc' = "aborted"

----------------------------------------------------------------------------
(* populate *)

\* a variant that stores the exception itself instead of {"error": e}
record_error_unwrapped(d, key, e) == setitem(d, key, e)

\* a variant that swallows the error without recording it
record_error_dropped(d, key, e) == d

\* except Exception as e: data[key] = {"error": e}
record_error(d, key, e) == setitem(d, key, ErrDict(e))

\* a variant that calls the Provider a second time when the first call raised
invocation_retried(f, key, call) ==
  IF call.raises
  THEN <<Event("invoke", f, key, 0, call), Event("invoke", f, key, 0, call)>>
  ELSE <<Event("invoke", f, key, 0, call)>>

\* res = obj(): the Provider case calls obj once, inside the try
invocation(f, key, call) == <<Event("invoke", f, key, 0, call)>>

\* the Collector case up to the for loop: key = get_key(obj);
\* subdata = data[key] = {}; then collect() is called and iterated, which
\* raises TypeError when collect() returned None.  (data is never None here:
\* main passes DATA.)
PopulateCollector ==
  /\ running /\ top.at = "call" /\ isCollector(heap, top.obj)
  /\ LET key == get_key(heap, top.obj).val.s
         sub == Len(dicts) + 1
     IN /\ dicts' = Append([dicts EXCEPT ![top.data] = setitem(@, key, DictV(sub))],
                           EmptyDict)
        /\ IF collect_is_iterable(heap, top.obj)
           THEN /\ log' = Append(log, Event("enter", top, key, 0, DictV(sub)))
                /\ stack' = [stack EXCEPT ![Len(stack)].at = "iter",
                                          ![Len(stack)].sub = sub]
                /\ pc' = pc
           ELSE /\ log' = log \o <<Event("enter", top, key, 0, DictV(sub)),
                                   Event("enumraise", top, <<>>, 0, NoneV)>>
                /\ Abort
  /\ UNCHANGED <<heap, output, nfid>>

\* the for loop asks the enumeration for the next child and gets one:
\* populate(collected, data=subdata, parent=parent)
CollectorYield ==
  /\ running /\ top.at = "iter"
  /\ top.pos < Len(heap[top.obj.ref].items)
  /\ heap[top.obj.ref].failAt # top.pos + 1
  /\ LET pos == top.pos + 1
         y == yield_item(heap, top.obj, pos)
         upto == requested_upto(pos, Len(heap[top.obj.ref].items))
         asked == [i \in 1..(upto - top.req) |->
                     Event("next", top, <<>>, top.req + i, NoneV)]
         child == Frame(nfid + 1, y.out.val, top.sub, top.parent,
                        Append(top.anc, <<top.fid, pos>>))
     IN /\ heap' = y.heap
        /\ log' = log \o asked
        /\ IF y.out.raises
           THEN Abort /\ UNCHANGED nfid
           ELSE /\ stack' = Append([stack EXCEPT ![Len(stack)].pos = pos,
                                                 ![Len(stack)].req =
                                                    IF upto > top.req THEN upto ELSE top.req],
                                   child)
                /\ nfid' = nfid + 1
                /\ pc' = pc
  /\ UNCHANGED <<dicts, output>>

\* the enumeration raises instead of yielding: nothing catches it
CollectorRaise ==
  /\ running /\ top.at = "iter"
  /\ heap[top.obj.ref].failAt = top.pos + 1
  /\ log' = Append(log, Event("enumraise", top, <<>>, top.pos + 1, NoneV))
  /\ Abort
  /\ UNCHANGED <<heap, dicts, output, nfid>>

\* the enumeration is exhausted: the Collector case returns
CollectorDone ==
  /\ running /\ top.at = "iter"
  /\ top.pos = Len(heap[top.obj.ref].items)
  /\ heap[top.obj.ref].failAt # top.pos + 1
  /\ log' = Append(log, Event("exhausted", top, <<>>, top.pos, NoneV))
  /\ stack' = pop(stack)
  /\ UNCHANGED <<heap, dicts, pc, output, nfid>>

\* the Provider case when obj() raises: the error is recorded at the key and
\* the call returns
ProviderRaises ==
  /\ running /\ top.at = "call" /\ isProvider(heap, top.obj)
  /\ LET key == get_key(heap, top.obj).val.s
         r == invoke(heap, top.obj)
     IN /\ r.out.raises
        /\ heap' = r.heap
        /\ dicts' = [dicts EXCEPT ![top.data] = record_error(@, key, r.out.exc)]
        /\ log' = log \o invocation(top, key, heap[top.obj.ref].call)
                       \o <<Event("error", top, key, 0, r.out.exc)>>
  /\ stack' = pop(stack)
  /\ UNCHANGED <<pc, output, nfid>>

\* the Provider case when obj() returns: populate(res, data=data, parent=obj)
ProviderReturns ==
  /\ running /\ top.at = "call" /\ isProvider(heap, top.obj)
  /\ LET key == get_key(heap, top.obj).val.s
         r == invoke(heap, top.obj)
     IN /\ ~r.out.raises
        /\ heap' = r.heap
        /\ log' = log \o invocation(top, key, heap[top.obj.ref].call)
        /\ stack' = [stack EXCEPT ![Len(stack)].obj = r.out.val,
                                  ![Len(stack)].parent = top.obj,
                                  ![Len(stack)].hop = @ + 1]
  /\ UNCHANGED <<dicts, pc, output, nfid>>

\* the base case of populate: key = get_key(parent); data[key] = obj.
\* get_key raises TypeError for a parent without id that is neither a
\* Provider nor a Collector, None included.
PopulateObject ==
  /\ running /\ top.at = "call"
  /\ ~isProvider(heap, top.obj) /\ ~isCollector(heap, top.obj)
  /\ LET k == get_key(heap, top.parent)
     IN IF k.raises
        THEN /\ log' = Append(log, Event("keyerror", top, <<>>, 0, top.parent))
             /\ Abort
             /\ UNCHANGED dicts
        ELSE /\ dicts' = [dicts EXCEPT ![top.data] = setitem(@, k.val.s, top.obj)]
             /\ log' = Append(log, Event("write", top, k.val.s, 0, top.obj))
             /\ stack' = pop(stack)
             /\ pc' = pc
  /\ UNCHANGED <<heap, output, nfid>>

\* main after populate returned: output_str = json.dumps(DATA, ...) is
\* printed or written to a file
MainWrite ==
  /\ pc = "collect" /\ stack = <<>>
  /\ \E dest \in {"stdout", "file"} :
       output' = [dest |-> dest, doc |-> dumps(dicts, DictV(1))]
  /\ pc' = "done"
  /\ UNCHANGED <<heap, dicts, stack, nfid, log>>

Next ==
  \/ PopulateCollector
  \/ CollectorYield
  \/ CollectorRaise
  \/ CollectorDone
  \/ ProviderRaises
  \/ ProviderReturns
  \/ PopulateObject
  \/ MainWrite

Spec == Init /\ [][Next]_vars

----------------------------------------------------------------------------
(* Reading the history *)

\* the steps that assign data[key]
WriteOps == {"write", "error", "enter"}

Events == 1..Len(log)
last_event == log[Len(log)]

\* the collector call whose enumeration yielded the node that step i works for
parent_call(i) == log[i].anc[Len(log[i].anc)][1]
\* the position of that node in the enumeration
position(i) == log[i].anc[Len(log[i].anc)][2]

\* step i is the first invocation made for an enumerated child: the child
\* itself raised, not a Provider that it returned
child_raised(i) ==
  /\ log[i].op = "error"
  /\ \A j \in Events : j < i - 1 => ~(log[j].op = "invoke" /\ log[j].fid = log[i].fid)

\* a later step assigns the same key of the same dict
overwritten(i) ==
  \E j \in Events :
    j > i /\ log[j].op \in WriteOps /\ log[j].d = log[i].d /\ log[j].key = log[i].key

\* the entry that step i assigned is in its dict as assigned
entry_kept(i) ==
  /\ log[i].key \in DOMAIN dicts[log[i].d]
  /\ dicts[log[i].d][log[i].key] =
       (IF log[i].op = "error" THEN ErrDict(log[i].val) ELSE log[i].val)

----------------------------------------------------------------------------
(* C1 *)

\* C1 as stated: when the populate call of a Collector finishes, every child
\* Producer of it that raised has exactly {"error": <the error>} at its key in
\* the Collector's nested mapping, and every entry assigned before the raise
\* is as it was assigned.
C1_ErrorRecordAtFinish ==
  (log # <<>> /\ last_event.op = "exhausted") =>
    \A i \in Events :
      (child_raised(i) /\ parent_call(i) = last_event.fid) =>
        /\ entry_kept(i)
        /\ \A j \in Events :
             (j < i /\ log[j].op \in WriteOps /\ log[j].d = log[i].d) => entry_kept(j)

\* C1, amended: a raised error is recorded as exactly {"error": <the error>}
\* at the Producer's key and stays there until a later step assigns that same
\* key of that mapping; entries under other keys are never touched by it (an
\* entry changes only when its own key is assigned again); the raise does not
\* abort the run; and when the Collector's populate call finishes every
\* position of its enumeration has been populated.
C1_ErrorContained ==
  /\ \A i \in Events :
       (log[i].op \in WriteOps /\ ~overwritten(i)) => entry_kept(i)
  /\ (log # <<>> /\ last_event.op = "error") =>
       /\ pc = "collect"
       /\ Len(stack) = Len(last_event.anc)
       /\ top.fid = parent_call(Len(log)) /\ top.at = "iter"
  /\ (log # <<>> /\ last_event.op = "exhausted") =>
       \A q \in 1..Len(heap[last_event.node.ref].items) :
         \E j \in Events :
           /\ log[j].op \in WriteOps
           /\ log[j].d = last_event.sub
           /\ parent_call(j) = last_event.fid /\ position(j) = q

\* a Collector's populate call has finished after a child raised and a later
\* sibling wrote another key
C1_Witness ==
  /\ log # <<>> /\ last_event.op = "exhausted"
  /\ \E i, j \in Events :
       /\ child_raised(i) /\ parent_call(i) = last_event.fid
       /\ j > i /\ log[j].op \in WriteOps /\ log[j].d = log[i].d
       /\ log[j].key # log[i].key
       /\ entry_kept(i)

----------------------------------------------------------------------------
(* C2 *)

RECURSIVE reachable_dicts(_, _)
\* the dicts of the output: DATA and every dict stored in one of them
reachable_dicts(seen, frontier) ==
  IF frontier = {}
  THEN seen
  ELSE LET found == { dicts[d][k].dref :
                        <<d, k>> \in { <<d, k>> \in frontier \X UNION { DOMAIN dicts[d] : d \in frontier } :
                                         k \in DOMAIN dicts[d] /\ dicts[d][k].kind = "dict" } }
       IN reachable_dicts(seen \cup frontier, found \ (seen \cup frontier))

\* the keys of the output that populate wrote: those of DATA and of the nested
\* mappings created for Collectors (keys inside an error record or inside a
\* value that a Producer returned are not counted)
output_keys ==
  LET ds == reachable_dicts({}, {1})
  IN { <<d, k>> \in ds \X UNION { DOMAIN dicts[d] : d \in ds } : k \in DOMAIN dicts[d] }

\* the populate calls made for the root and for every enumerated child, a
\* node counting once for each time it is enumerated
enumerated == nfid

\* the distinct nodes those calls were made for: a call's first step is made
\* on the enumerated node itself
enumerated_nodes ==
  { log[i].node : i \in { i \in Events : /\ log[i].op \in {"invoke", "enter"}
                                        /\ \A j \in Events : j < i => log[j].fid # log[i].fid } }

\* some entry was assigned twice, the second assignment replacing the first
key_collision == \E i \in Events : log[i].op \in WriteOps /\ overwritten(i)

\* C2 as stated: on a completed run the output has as many keys as nodes were
\* enumerated, no probe dropped and no sibling overwriting another.
C2_KeysEqualProbes ==
  pc = "done" => Cardinality(output_keys) = Cardinality(enumerated_nodes)

\* C2, amended: on a completed run the output never has more keys than populate
\* calls were made for the root and the enumerated children (a node counted
\* once for each time it is enumerated), and it has exactly as many if and
\* only if no two writes into the same mapping used the same key; populate
\* does not prevent such a collision.
C2_KeysAtMostProbes ==
  pc = "done" =>
    /\ Cardinality(output_keys) <= enumerated
    /\ (Cardinality(output_keys) = enumerated) <=> ~key_collision

\* a completed run over nested collectors, with a raised error in it, in which
\* every enumerated node has its own key
C2_Witness ==
  /\ pc = "done" /\ ~key_collision
  /\ Cardinality(output_keys) = enumerated /\ enumerated >= 4
  /\ Cardinality(reachable_dicts({}, {1})) >= 3
  /\ \E i \in Events : log[i].op = "error"

----------------------------------------------------------------------------
(* C3 *)

\* step i invoked a Producer whose wrapped attribute, method or function
\* returned an (id, value) pair with a plain value; step j is the write that
\* the populate call of that Producer ended with
pair_returned(i, j) ==
  /\ log[i].op = "invoke" /\ ~log[i].val.raises
  /\ is_id_pair(log[i].val.val)
  /\ log[i].val.val.items[2].kind \notin {"node", "callable", "tuple"}
  /\ j > i /\ log[j].fid = log[i].fid /\ log[j].op \in WriteOps

\* C3 as stated: whatever the kind of the Producer, a returned pair
\* ("custom_id", "value") ends as key "custom_id" mapped to "value", and the
\* Producer's own key is not used.
C3_AnyProducerPair ==
  \A i, j \in Events :
    (pair_returned(i, j) /\ log[i].val.val = custom_pair) =>
      /\ log[j].d = log[i].d
      /\ log[j].key = <<"c","i","d">>
      /\ log[j].val = StrV(<<"v">>)
      /\ log[j].key # log[i].key

\* C3, amended: populate itself normalizes nothing.  An InstanceMethod, whose
\* __call__ passes the method's result through get_collectable with itself as
\* parent, ends with the pair's id mapped to the pair's value and its own key
\* unused; every other Producer kind (Function, Value, InstanceAttribute, any
\* other Provider) ends with the pair itself stored at its own resolved key.
C3_OnlyInstanceMethodPair ==
  \A i, j \in Events :
    pair_returned(i, j) =>
      /\ log[j].d = log[i].d
      /\ \A k \in Events :
           (log[k].fid = log[i].fid /\ log[k].op \in WriteOps) => k = j
      /\ IF heap[log[i].node.ref].cls = cls_InstanceMethod
         THEN /\ log[j].key = log[i].val.val.items[1].s
              /\ log[j].val = log[i].val.val.items[2]
         ELSE /\ log[j].key = log[i].key
              /\ log[j].val = log[i].val.val

\* an InstanceMethod returned ("cid", "v") and "cid" now maps to "v" in the
\* mapping it was populated into, which has no entry at the method's own key
C3_Witness ==
  \E i, j \in Events :
    /\ pair_returned(i, j)
    /\ heap[log[i].node.ref].cls = cls_InstanceMethod
    /\ log[i].val.val = custom_pair
    /\ j = Len(log)
    /\ dicts[log[i].d][<<"c","i","d">>] = StrV(<<"v">>)
    /\ log[i].key \notin DOMAIN dicts[log[i].d]

----------------------------------------------------------------------------
(* C4 *)

\* the lowercase class names, written out
expected_name(cls) ==
  CASE cls = cls_Value -> <<"v","a","l","u","e">>
    [] cls = cls_Function -> <<"f","u","n","c","t","i","o","n">>
    [] cls = cls_InstanceAttribute ->
         <<"i","n","s","t","a","n","c","e","a","t","t","r","i","b","u","t","e">>
    [] cls = cls_InstanceMethod ->
         <<"i","n","s","t","a","n","c","e","m","e","t","h","o","d">>
    [] cls = cls_PipList -> <<"p","i","p","l","i","s","t">>
    [] cls = cls_Environ -> <<"e","n","v","i","r","o","n">>
    [] cls = cls_File -> <<"f","i","l","e">>
    [] cls = cls_DictCollector -> <<"d","i","c","t","c","o","l","l","e","c","t","o","r">>
    [] cls = cls_ModuleFunction ->
         <<"m","o","d","u","l","e","f","u","n","c","t","i","o","n">>
    [] cls = cls_DependenciesOf ->
         <<"d","e","p","e","n","d","e","n","c","i","e","s","o","f">>

\* what the claim says get_key gives for a node in state n
expected_key(n) ==
  IF n.id # NoneV THEN Returns(n.id)
  ELSE IF n.cls \in ProviderClasses THEN Returns(StrV(expected_name(n.cls)))
  ELSE IF n.cls \in CollectorClasses
  THEN IF n.target # NoneV /\ n.target.s # <<>>
       THEN Returns(StrV(expected_name(n.cls) \o <<"[">> \o n.target.s \o <<"]">>))
       ELSE Returns(StrV(expected_name(n.cls)))
  ELSE Raises(ExcV(cls_TypeError, <<>>))

\* C4: get_key gives the explicit id verbatim when it is set; otherwise the
\* lowercase class name for a Producer; otherwise the lowercase class name
\* for a Collector, followed by "[target]" exactly when the target is
\* non-empty; and it raises TypeError for anything else without id (None
\* and a plain _Node included).  The key populate used in its last step is
\* that key.
C4_GetKey ==
  /\ \A r \in 1..Len(heap) : get_key(heap, NodeV(r)) = expected_key(heap[r])
  /\ get_key(heap, NoneV) = Raises(ExcV(cls_TypeError, <<>>))
  /\ (log # <<>> /\ last_event.op \in {"enter", "invoke"}) =>
       Returns(StrV(last_event.key)) = expected_key(heap[last_event.node.ref])
  /\ (log # <<>> /\ last_event.op = "keyerror") =>
       \/ last_event.val = NoneV
       \/ /\ heap[last_event.val.ref].id = NoneV
          /\ heap[last_event.val.ref].cls \notin (ProviderClasses \cup CollectorClasses)

\* a run that used the key of a Collector with a target and a Producer's
\* default key, gave a plain _Node an explicit id, and ended in the TypeError
C4_Witness ==
  /\ log # <<>> /\ last_event.op = "keyerror"
  /\ \E j, k \in Events :
       /\ log[j].op = "enter"
       /\ log[j].key = <<"m","o","d","u","l","e","f","u","n","c","t","i","o","n","[","r","]">>
       /\ log[k].op = "invoke" /\ log[k].key = <<"p","i","p","l","i","s","t">>
  /\ \E r \in 1..Len(heap) :
       /\ heap[r].id = str_a /\ heap[r].cls = cls_Result
       /\ get_key(heap, NodeV(r)) = Returns(str_a)

----------------------------------------------------------------------------
(* C5 *)

\* the steps at which an exception left populate uncaught: a Collector's
\* enumeration raised, or get_key raised TypeError
Uncaught == {"enumraise", "keyerror"}

\* C5: an error of a Collector's enumeration, at any depth, and a TypeError of
\* key derivation are not caught: the run is aborted at that step, no
\* populate call remains active, and main has written nothing, to stdout or
\* to a file; only a run without such an error gets to write its output.
C5_StructuralErrorAborts ==
  /\ (\E i \in Events : log[i].op \in Uncaught) =>
       /\ pc = "aborted" /\ stack = <<>> /\ output = NoneV
       /\ last_event.op \in Uncaught
  /\ pc = "aborted" => output = NoneV
  /\ output # NoneV => pc = "done"

\* the run was aborted by the enumeration of a Collector that a Producer
\* returned, below the root, after an entry had been written
C5_Witness ==
  /\ pc = "aborted" /\ output = NoneV
  /\ \E i, j, k \in Events :
       /\ log[i].op = "enumraise" /\ Len(log[i].anc) >= 1
       /\ j < i /\ log[j].op = "invoke" /\ log[j].fid = log[i].fid
       /\ k < i /\ log[k].op = "write"

----------------------------------------------------------------------------
(* C6 *)

\* the arguments get_collectable is tried on in every reachable heap
C6_Values == Menu \cup { v.items[2] : v \in { m \in Menu : m.kind = "tuple" } }
C6_Parents == { the_root, the_environ }
C6_Ids == { NoneV, StrV(<<"k">>) }

\* the module-qualified name of a callable
qualified_name(f) ==
  IF f.module = NoneV THEN f.name ELSE f.module.s \o <<".">> \o f.name

\* rule 2: the same node comes back, and only an unset id or parent is filled:
\* the id with the explicit id or else the parent's id
C6_rule2(r, obj, parent, id) ==
  LET own == heap[obj.ref]
      parent1 == IF own.parent = NoneV THEN parent ELSE own.parent
  IN /\ r.out = Returns(obj)
     /\ r.heap = [heap EXCEPT
          ![obj.ref].parent = parent1,
          ![obj.ref].id = IF own.id # NoneV THEN own.id
                          ELSE IF id # NoneV THEN id
                          ELSE heap[parent1.ref].id]

\* rule 3: a new Function whose id is the explicit id or else the qualified
\* name followed by "()"
C6_rule3(r, obj, parent, id) ==
  /\ r.out = Returns(NodeV(Len(heap) + 1))
  /\ r.heap = Append(heap,
       Node(cls_Function,
            IF id # NoneV THEN id ELSE StrV(qualified_name(obj) \o <<"(", ")">>),
            parent, NoneV, obj.out, <<>>, 0))

\* rule 4: a new Value whose id is the explicit id or else the parent's id
C6_rule4(r, obj, parent, id) ==
  /\ r.out = Returns(NodeV(Len(heap) + 1))
  /\ r.heap = Append(heap,
       Node(cls_Value, IF id # NoneV THEN id ELSE heap[parent.ref].id,
            parent, NoneV, Returns(obj), <<>>, 0))

\* rules 2 to 4 for a value that is not unpacked
C6_rules(r, obj, parent, id) ==
  IF obj.kind = "node" THEN C6_rule2(r, obj, parent, id)
  ELSE IF obj.kind = "callable" THEN C6_rule3(r, obj, parent, id)
  ELSE C6_rule4(r, obj, parent, id)

\* the root's enumeration has just yielded a child, which ModuleFunction.collect
\* normalized with get_collectable(item, parent=self)
C6_just_yielded ==
  running /\ Len(stack) = 2 /\ top.at = "call" /\ top.parent = NoneV

\* the item that child was made from
C6_item == heap[1].items[stack[1].pos]

\* the yielded child is what rules 2 to 4 make of obj and id
C6_child_by_rules(obj, id) ==
  IF obj.kind = "node"
  THEN top.obj = obj /\ heap[obj.ref].parent # NoneV
  ELSE IF obj.kind = "callable"
  THEN heap[top.obj.ref] =
         Node(cls_Function,
              IF id # NoneV THEN id ELSE StrV(qualified_name(obj) \o <<"(", ")">>),
              the_root, NoneV, obj.out, <<>>, 0)
  ELSE heap[top.obj.ref] =
         Node(cls_Value, IF id # NoneV THEN id ELSE heap[1].id,
              the_root, NoneV, Returns(obj), <<>>, 0)

\* C6 as stated: an (s, inner) pair gives the node that normalizing inner with
\* the explicit id s gives, by recursion (so that an inner pair is unpacked
\* again), and everything else follows rules 2 to 4.
C6_RecursiveUnpack ==
  /\ (C6_just_yielded /\ is_id_pair(C6_item)) =>
       LET rec == get_collectable(heap, C6_item.items[2], the_root, C6_item.items[1])
       IN rec.heap[rec.out.val.ref] = heap[top.obj.ref]
  /\ \A obj \in C6_Values, parent \in C6_Parents, id \in C6_Ids :
       ~is_id_pair(obj) => C6_rules(get_collectable(heap, obj, parent, id), obj, parent, id)

\* C6, amended: an (s, inner) pair is unpacked once and inner then follows
\* rules 2 to 4 with the explicit id s (the id argument is dropped); there is
\* no recursion, so an inner value that is itself such a pair is not
\* unpacked again but wrapped whole as a Value with id s.  Everything else
\* follows rules 2 to 4.  Checked of get_collectable on every reachable heap
\* and of the child that the enumeration actually yielded.
C6_SingleUnpack ==
  /\ \A obj \in C6_Values, parent \in C6_Parents, id \in C6_Ids :
       LET r == get_collectable(heap, obj, parent, id)
       IN IF is_id_pair(obj)
          THEN C6_rules(r, obj.items[2], parent, obj.items[1])
          ELSE C6_rules(r, obj, parent, id)
  /\ C6_just_yielded =>
       IF is_id_pair(C6_item)
       THEN C6_child_by_rules(C6_item.items[2], C6_item.items[1])
       ELSE C6_child_by_rules(C6_item, NoneV)

\* the enumeration has normalized the pair ("a", ("b", 5)) into a Value with
\* id "a" holding ("b", 5), and a callable into a Function named after it
C6_Witness ==
  \E v, f \in 1..Len(heap) :
    /\ heap[v].cls = cls_Value /\ heap[v].id = str_a
    /\ heap[v].call = Returns(TupleV(<<str_b, IntV(5)>>))
    /\ heap[f].cls = cls_Function /\ heap[f].id = StrV(<<"o","s",".","g","(",")">>)

----------------------------------------------------------------------------
(* C7 *)

RECURSIVE json_at(_, _, _)
\* the JSON object that the document j, rendered from dict cur, has for the
\* dict target nested in it
json_at(cur, j, target) ==
  IF cur = target
  THEN j
  ELSE LET k == CHOOSE k \in DOMAIN dicts[cur] :
                  /\ dicts[cur][k].kind = "dict"
                  /\ target \in reachable_dicts({}, {dicts[cur][k].dref})
       IN json_at(dicts[cur][k].dref, j.members[k], target)

\* what the written document holds where step i recorded its error
rendered_error(i) == json_at(1, output.doc, log[i].d).members[log[i].key]

\* step i recorded RuntimeError("boom") in a mapping of the output, and no
\* later step assigned that key
boom_recorded(i) ==
  /\ log[i].op = "error" /\ log[i].val = boom /\ ~overwritten(i)
  /\ log[i].d \in reachable_dicts({}, {1})

json_error(text) ==
  [json |-> "object",
   members |-> [k \in {<<"e","r","r","o","r">>} |-> [json |-> "scalar", v |-> StrV(text)]]]

\* C7 as stated: the written document has {"error": "boom"} at the key of a
\* Producer that raised RuntimeError("boom").
C7_ErrorRendersAsMessage ==
  pc = "done" =>
    \A i \in Events :
      boom_recorded(i) => rendered_error(i) = json_error(<<"b","o","o","m">>)

\* C7, amended: the written document has {"error": "RuntimeError('boom')"}
\* there: _to_jsonable renders an exception as its repr, the class name with
\* the quoted message in parentheses, not as the bare message.
C7_ErrorRendersAsRepr ==
  pc = "done" =>
    \A i \in Events :
      boom_recorded(i) =>
        rendered_error(i) =
          json_error(<<"R","u","n","t","i","m","e","E","r","r","o","r",
                       "(","'","b","o","o","m","'",")">>)

\* a document was written that holds the error of a Producer two levels
\* below the root and the value of a sibling of it
C7_Witness ==
  /\ pc = "done" /\ output.dest = "file"
  /\ \E i \in Events :
       /\ boom_recorded(i) /\ Len(log[i].anc) = 2
       /\ Cardinality(DOMAIN json_at(1, output.doc, log[i].d).members) = 2

----------------------------------------------------------------------------
(* C8 *)

\* the Collector that step i entered has no children: its collect() yields
\* nothing and does not raise of itself
childless(i) ==
  /\ log[i].op = "enter"
  /\ heap[log[i].node.ref].items = <<>> /\ heap[log[i].node.ref].failAt = 0

\* C8: a Collector leaves at its key a nested mapping, never a scalar, which
\* holds exactly the entries its children wrote; and populate of a Collector
\* without children, DictCollector included, completes with the key mapped
\* to an empty mapping.
C8_CollectorMapping ==
  \A i \in Events :
    log[i].op = "enter" =>
      /\ ~overwritten(i) =>
           /\ log[i].key \in DOMAIN dicts[log[i].d]
           /\ dicts[log[i].d][log[i].key] = log[i].val
      /\ log[i].val.kind = "dict"
      /\ DOMAIN dicts[log[i].val.dref] =
           { log[j].key : j \in { j \in Events : /\ log[j].op \in WriteOps
                                                 /\ log[j].d = log[i].val.dref } }
      /\ (childless(i) /\ i < Len(log)) =>
           /\ log[i + 1].op = "exhausted" /\ log[i + 1].fid = log[i].fid
           /\ ~overwritten(i) => dicts[log[i].val.dref] = EmptyDict

----------------------------------------------------------------------------
(* C9 *)

\* step i belongs to the subtree of a child that collector call f enumerated
\* at a position satisfying the test
in_subtree_before(i, f, pos) ==
  \E x \in 1..Len(log[i].anc) : log[i].anc[x][1] = f /\ log[i].anc[x][2] < pos

\* C9: the traversal is depth-first, sequential and lazy.  When a Collector's
\* enumeration is asked for the child at a position, every step of the
\* subtrees of the children at earlier positions has been taken, and those
\* subtrees are complete: each Producer invoked in them has ended in its
\* write and each Collector entered in them is exhausted.  The enumeration is
\* asked position by position, and the steps of two children of one Collector
\* are in the order of their positions.
C9_DepthFirstLazy ==
  /\ \A j \in Events :
       log[j].op = "next" =>
         \A i \in Events :
           in_subtree_before(i, log[j].fid, log[j].pos) =>
             /\ i < j
             /\ log[i].op = "invoke" =>
                  \E k \in Events :
                    i < k /\ k < j /\ log[k].fid = log[i].fid /\ log[k].op \in WriteOps
             /\ log[i].op = "enter" =>
                  \E k \in Events :
                    i < k /\ k < j /\ log[k].fid = log[i].fid /\ log[k].op = "exhausted"
  /\ \A j1, j2 \in Events :
       (log[j1].op = "next" /\ log[j2].op = "next" /\ log[j1].fid = log[j2].fid /\ j1 < j2)
         => log[j1].pos < log[j2].pos
  /\ \A i1, i2 \in Events :
       (\E x \in 1..Len(log[i1].anc) :
          in_subtree_before(i2, log[i1].anc[x][1], log[i1].anc[x][2])) => i2 < i1

\* the root's enumeration has been asked for its second child after its first
\* child, a Collector with two children of its own, was populated completely
C9_Witness ==
  \E j, i, k \in Events :
    /\ log[j].op = "next" /\ log[j].fid = 1 /\ log[j].pos = 2
    /\ i < j /\ log[i].op = "enter" /\ log[i].anc = << <<1, 1>> >>
    /\ k < j /\ log[k].op = "next" /\ log[k].fid = log[i].fid /\ log[k].pos = 2

----------------------------------------------------------------------------
(* C10 *)

\* node r has both its id and its parent
fully_set(r) == heap[r].id # NoneV /\ heap[r].parent # NoneV

\* get_collectable leaves a node with id and parent alone and returns it,
\* whatever explicit id and parent it is given, also from inside a pair
C10_stable ==
  \A r \in 1..Len(heap) :
    fully_set(r) =>
      \A parent \in C6_Parents \cup {NoneV}, id \in C6_Ids :
        /\ get_collectable(heap, NodeV(r), parent, id) =
             [heap |-> heap, out |-> Returns(NodeV(r))]
        /\ get_collectable(heap, TupleV(<<str_b, NodeV(r)>>), parent, id) =
             [heap |-> heap, out |-> Returns(NodeV(r))]

\* no step changes an id or a parent that is set, or removes a node
C10_step ==
  /\ Len(heap') >= Len(heap)
  /\ \A r \in 1..Len(heap) :
       /\ heap[r].id # NoneV => heap'[r].id = heap[r].id
       /\ heap[r].parent # NoneV => heap'[r].parent = heap[r].parent

\* C10: an id or parent that is set on a node is never changed: normalizing a
\* node that has both returns the same node unchanged, and no step of the
\* traversal assigns a different value to an id or parent once it is set.
C10_IdsImmutable == []C10_stable /\ [][C10_step]_vars

\* the enumeration has just normalized the pair ("b", node) for a node that
\* had the id "e" and a parent, and yielded that node with the id "e"
C10_Witness ==
  /\ C6_just_yielded
  /\ C6_item = TupleV(<<str_b, the_environ>>)
  /\ top.obj = the_environ
  /\ heap[the_environ.ref].id = StrV(<<"e">>)
  /\ heap[the_environ.ref].parent = the_root

----------------------------------------------------------------------------
(* C11: one invocation per Provider reached, none by a Collector *)

\* the steps a Collector call takes itself
CollectorOps == {"enter", "next", "enumraise", "exhausted"}

\* the steps taken by the populate call for the enumerated node f after h
\* populate(res, ...) calls
events_at(f, h) == { i \in Events : log[i].fid = f /\ log[i].hop = h }

\* the calls obj() among them
invocations(f, h) == { i \in events_at(f, h) : log[i].op = "invoke" }

\* obj() returned at (f, h): it was called and no error was recorded
returned_at(f, h) ==
  /\ invocations(f, h) # {}
  /\ \A i \in events_at(f, h) : log[i].op # "error"

\* populate was called for the enumerated node f (h = 0) or for the result
\* of the Provider populated at (f, h - 1)
reached(f, h) ==
  /\ f \in 1..nfid
  /\ h = 0 \/ (h > 0 /\ returned_at(f, h - 1))

\* the populate call at (f, h) has been made and has not taken its step yet
pending(f, h) ==
  \E x \in 1..Len(stack) :
    stack[x].fid = f /\ stack[x].hop = h /\ stack[x].at = "call"

\* the calls already dispatched, by the node each was made for
dispatched(n) ==
  { fh \in (1..nfid) \X (0..Len(log)) :
      /\ reached(fh[1], fh[2]) /\ ~pending(fh[1], fh[2])
      /\ \E i \in events_at(fh[1], fh[2]) : log[i].node = n }

\* C11: every populate call made for a Provider, for an enumerated child or
\* for the result of another Provider, calls that Provider exactly once,
\* whether the call returns or raises, and a call made for anything else
\* calls nothing; a node populated k times is therefore called k times, once
\* on a tree.  The steps of a Collector call are its own entry and its
\* enumeration only, and each enumerated child gets one populate call.
C11_InvokedOncePerReach ==
  /\ \A f \in 1..nfid : \A h \in 0..Len(log) :
       reached(f, h) =>
         IF pending(f, h)
         THEN events_at(f, h) = {}
         ELSE /\ events_at(f, h) # {}
              /\ \A i, j \in events_at(f, h) : log[i].node = log[j].node
              /\ \A i \in events_at(f, h) :
                   IF isProvider(heap, log[i].node)
                   THEN Cardinality(invocations(f, h)) = 1
                   ELSE invocations(f, h) = {}
  /\ \A i \in Events :
       /\ log[i].op = "invoke" =>
            reached(log[i].fid, log[i].hop) /\ isProvider(heap, log[i].node)
       /\ isCollector(heap, log[i].node) => log[i].op \in CollectorOps
       /\ log[i].op \in CollectorOps => isCollector(heap, log[i].node)
  /\ \A r \in 1..Len(heap) :
       isProvider(heap, NodeV(r)) =>
         Cardinality({ i \in Events : log[i].op = "invoke" /\ log[i].node = NodeV(r) })
           = Cardinality(dispatched(NodeV(r)))
  /\ \A i, j \in Events :
       (log[i].anc # <<>> /\ log[j].anc # <<>>
          /\ parent_call(i) = parent_call(j) /\ position(i) = position(j))
         => log[i].fid = log[j].fid

\* a finished run in which an enumerated Provider raised, a Provider reached
\* as another Provider's result was called, both enumerated by a Collector
\* that is itself an enumerated child, and a Provider reached as a result
\* raised
C11_Witness ==
  /\ pc = "done"
  /\ \E i, j \in Events :
       /\ log[i].op = "invoke" /\ log[i].node = the_raising_result
       /\ log[j].op = "invoke" /\ log[j].fid = log[i].fid /\ log[j].hop = 1
       /\ log[j].val.raises
  /\ \E i, j, k, c \in Events :
       /\ log[c].op = "enter" /\ Len(log[c].anc) = 1
       /\ log[i].op = "invoke" /\ log[i].hop = 0 /\ log[i].val.raises
       /\ log[j].op = "invoke" /\ log[j].hop = 0 /\ ~log[j].val.raises
       /\ log[k].op = "invoke" /\ log[k].hop = 1 /\ log[k].fid = log[j].fid
       /\ log[k].node # log[j].node
       /\ parent_call(i) = log[c].fid /\ parent_call(j) = log[c].fid

====
